---- MODULE Spec2Model ----
(***************************************************************************)
(* The HTTP server lifecycle of go-client (package server): the Server     *)
(* facade, its Driver, and the RunServer orchestrator that races the       *)
(* serving goroutine's result against an OS signal; and the generated      *)
(* API client (NewClient, its options, its calls and request editors).     *)
(*                                                                         *)
(* The specifications share the state:                                       *)
(*   Spec     one run of RunServer (cmd/iv Run -> server.RunServer);       *)
(*   ApiSpec  a caller that drives the exported Server/Driver methods      *)
(*            directly (go s.ListenAndServe(), s.Shutdown(ctx),            *)
(*            s.Driver.Shutdown(ctx)) with deadlines from a bounded set;   *)
(*   ChainSpec a caller that registers the routes and serves requests      *)
(*            through the multiplexer, one stage of the chain at a time.   *)
(*   ClientSpec the generated API client's constructor NewClient, applied  *)
(*            to server texts and option lists from bounded sets;          *)
(*   CallSpec a client with request editors making one of its calls.       *)
(***************************************************************************)
EXTENDS Integers, Sequences, FiniteSets, TLC

\* ---------------------------------------------------------------- bounds
MaxSignals == 3        \* OS signals the environment delivers in one run
MaxInflight == 2       \* requests concurrently in flight
MaxShutdownCalls == 2  \* Shutdown calls (Server's or Driver's) the ApiSpec caller makes
MaxDeadline == 1       \* the ApiSpec caller's deadlines are 0..MaxDeadline
MaxRequests == 2       \* requests the ChainSpec client sends, one after another
MaxLen == 2            \* characters of the server text given to NewClient
MaxOpts == 2           \* options given to NewClient
MaxEditors == 2        \* request editors of the client, and of one call

\* ------------------------------------------------------ program constants
ShutdownGrace == 5     \* context.WithTimeout(..., 5 * time.Second)
ChanCap == 1           \* make(chan error, 1), make(chan os.Signal, 1)

ListenAddr == ":8081"
Nil == "nil"
EADDRINUSE == "listen tcp :8081: bind: address already in use"
EACCEPT == "accept tcp :8081: fatal network error"
Signals == {"SIGINT", "SIGTERM"}

LogInit == "Logging Initialized"
LogStartErr == "server start error"
LogSignal == "shutdown signal received"
LogShutErr == "graceful shutdown error"

\* No request has been served yet.
NoRequest ==
    [id |-> 0, method |-> "", path |-> "", remote |-> "", handler |-> <<>>,
     pos |-> 0, dir |-> "done", fields |-> <<>>, trace |-> <<>>, status |-> 0,
     ctxs |-> <<>>]

VARIABLES
    pc,        \* the orchestrator's position in RunServer ("api" under ApiSpec)
    gpc,       \* the serving goroutine's position
    goErr,     \* the value s.ListenAndServe() returned to the goroutine
    errCh,     \* the buffered channel errCh
    sigInt,    \* the buffered channel sigInt
    notified,  \* signal.Notify has registered sigInt
    sigsSent,  \* OS signals delivered to the process so far
    srv,       \* the fields of Server and of its Driver's http.Server
    port,      \* the OS's view of the listen address: free, other, ours
    inflight,  \* requests accepted and not yet completed
    branch,    \* the select case RunServer took
    err,       \* the err received from errCh in the select
    shutErr,   \* the value s.Shutdown(ctx) returned to RunServer
    log,       \* the entries written to the logger, in order
    result,    \* what RunServer (and so Run) returned
    shutHist,  \* history: one record per Server.Shutdown call
    drvHist,   \* history: one record per Driver.Shutdown call
    first,     \* history: the source whose channel became ready first
    h,         \* history: counts of the listen calls and bind attempts made
    req,       \* the request being served through a route's handler, if any
    accessLog, \* the entries the access recorder wrote, in order
    cli        \* the generated API client: NewClient's arguments and result, the last call

\* What serving one request through the middleware chain reads and writes.
chainVars == <<req, accessLog>>

vars == <<pc, gpc, goErr, errCh, sigInt, notified, sigsSent, srv, port,
          inflight, branch, err, shutErr, log, result, shutHist, drvHist, first,
          h, chainVars, cli>>

\* The part of the state Shutdown can see and change.
World == [srv |-> srv, port |-> port, inflight |-> inflight]

\* The process runs until RunServer has returned (main then exits) or the
\* default disposition of an unhandled signal has ended it.
ProcAlive == pc \notin {"done", "killed"}

\* --------------------------------------------------------------- Server
\* New(sm, ds, lgr): Addr is left at its zero value, sm is http.NewServeMux().
\* http.NewServeMux(): a multiplexer with no route (pattern -> handler).
NewServeMux == <<>>

New == [Addr |-> "", DrvAddr |-> "", DrvHandler |-> Nil, mux |-> NewServeMux]

\* func (d *Driver) Shutdown(ctx) error { return nil }
DriverShutdown(w, d) == [ret |-> Nil, w |-> w]

\* Variant: the first call releases the driver's handler, a call that finds
\* none reports the server closed.
ServerShutdown_CloseOnce(w, d) ==
    IF w.srv.DrvHandler = Nil
      THEN [ret |-> "http: Server closed", w |-> w, delegated |-> <<>>]
      ELSE [ret |-> Nil, w |-> [w EXCEPT !.srv.DrvHandler = Nil], delegated |-> <<>>]

\* Variant: a call that finds no bound socket reports an error.
ServerShutdown_ErrNotRunning(w, d) ==
    [ret |-> IF w.port = "ours" THEN Nil ELSE "server not running",
     w |-> w, delegated |-> <<>>]

\* func (s *Server) Shutdown(ctx) error { return nil }: the driver is not called.
ServerShutdown(w, d) == [ret |-> Nil, w |-> w, delegated |-> <<>>]

\* ------------------------------------------------------------ goroutine
\* Driver.ListenAndServe: return d.Server.ListenAndServe(), the error as it is.
DriverListenReturn(cause) == cause

\* Server.ListenAndServe: return s.Driver.ListenAndServe(s.Addr, s.mux).
ServerListenReturn(drvRet) == drvRet

\* go func() { errCh <- s.ListenAndServe() }(): Server.ListenAndServe calls
\* Driver.ListenAndServe(s.Addr, s.mux), which stores address and handler.
GoStart ==
    /\ ProcAlive
    /\ gpc = "spawned"
    /\ srv' = [srv EXCEPT !.DrvAddr = srv.Addr, !.DrvHandler = "mux"]
    /\ gpc' = "bind"
    /\ h' = [h EXCEPT !.listenCalls = @ + 1, !.active = @ + 1]
    /\ UNCHANGED <<cli, chainVars, pc, goErr, errCh, sigInt, notified, sigsSent, port, inflight,
                   branch, err, shutErr, log, result, shutHist, drvHist, first>>

\* Variant: a failed bind is tried once more before the error is returned.
GoBind_Retry ==
    /\ ProcAlive
    /\ gpc = "bind"
    /\ IF port = "free"
         THEN /\ port' = "ours"
              /\ gpc' = "serving"
              /\ goErr' = goErr
              /\ h' = [h EXCEPT !.binds = @ + 1]
         ELSE /\ port' = port
              /\ gpc' = IF h.binds = 0 THEN "bind" ELSE "send"
              /\ goErr' = IF h.binds = 0 THEN goErr ELSE EADDRINUSE
              /\ h' = IF h.binds = 0
                        THEN [h EXCEPT !.binds = @ + 1]
                        ELSE [h EXCEPT !.binds = @ + 1, !.active = @ - 1,
                                       !.drvRet = EADDRINUSE]
    /\ UNCHANGED <<cli, chainVars, pc, errCh, sigInt, notified, sigsSent, srv, inflight,
                   branch, err, shutErr, log, result, shutHist, drvHist, first>>

\* d.Server.ListenAndServe(): net.Listen binds the address or fails.
GoBind ==
    /\ ProcAlive
    /\ gpc = "bind"
    /\ IF port = "free"
         THEN /\ port' = "ours"
              /\ gpc' = "serving"
              /\ goErr' = goErr
              /\ h' = [h EXCEPT !.binds = @ + 1]
         ELSE /\ port' = port
              /\ gpc' = "send"
              /\ goErr' = ServerListenReturn(DriverListenReturn(EADDRINUSE))
              /\ h' = [h EXCEPT !.binds = @ + 1, !.active = @ - 1,
                                !.drvRet = DriverListenReturn(EADDRINUSE)]
    /\ UNCHANGED <<cli, chainVars, pc, errCh, sigInt, notified, sigsSent, srv, inflight,
                   branch, err, shutErr, log, result, shutHist, drvHist, first>>

\* The accept loop ends on a fatal network error: Serve closes the listener
\* and returns the error; requests already accepted keep running.
GoAcceptError ==
    /\ ProcAlive
    /\ gpc = "serving"
    /\ port' = "free"
    /\ gpc' = "send"
    /\ goErr' = ServerListenReturn(DriverListenReturn(EACCEPT))
    /\ h' = [h EXCEPT !.active = @ - 1, !.drvRet = DriverListenReturn(EACCEPT)]
    /\ UNCHANGED <<cli, chainVars, pc, errCh, sigInt, notified, sigsSent, srv, inflight,
                   branch, err, shutErr, log, result, shutHist, drvHist, first>>

\* Variant: the goroutine sends its result again after each send.
GoSend_Again ==
    /\ ProcAlive
    /\ gpc = "send"
    /\ Len(errCh) < ChanCap
    /\ errCh' = Append(errCh, goErr)
    /\ gpc' = "send"
    /\ first' = IF first = "none" THEN "err" ELSE first
    /\ UNCHANGED <<cli, chainVars, h, pc, goErr, sigInt, notified, sigsSent, srv, port, inflight,
                   branch, err, shutErr, log, result, shutHist, drvHist>>

\* errCh <- (result): blocks while the buffer is full.
GoSend ==
    /\ ProcAlive
    /\ gpc = "send"
    /\ Len(errCh) < ChanCap
    /\ errCh' = Append(errCh, goErr)
    /\ gpc' = "done"
    /\ first' = IF first = "none" THEN "err" ELSE first
    /\ UNCHANGED <<cli, chainVars, h, pc, goErr, sigInt, notified, sigsSent, srv, port, inflight,
                   branch, err, shutErr, log, result, shutHist, drvHist>>

\* ---------------------------------------------------------- environment
\* The accept loop takes a connection and a request starts.
RequestArrive ==
    /\ ProcAlive
    /\ gpc = "serving"
    /\ inflight < MaxInflight
    /\ inflight' = inflight + 1
    /\ UNCHANGED <<cli, chainVars, h, pc, gpc, goErr, errCh, sigInt, notified, sigsSent, srv, port,
                   branch, err, shutErr, log, result, shutHist, drvHist, first>>

\* A request in flight completes.
RequestDone ==
    /\ ProcAlive
    /\ inflight > 0
    /\ inflight' = inflight - 1
    /\ UNCHANGED <<cli, chainVars, h, pc, gpc, goErr, errCh, sigInt, notified, sigsSent, srv, port,
                   branch, err, shutErr, log, result, shutHist, drvHist, first>>

\* Variant: the registration ends when the select has taken its case, so a
\* later signal meets the default disposition.
Signal_DefaultAfterFirst ==
    /\ ProcAlive
    /\ pc # "api"
    /\ sigsSent < MaxSignals
    /\ sigsSent' = sigsSent + 1
    /\ \E sg \in Signals :
         IF notified /\ branch = "none"
           THEN /\ sigInt' = IF Len(sigInt) < ChanCap THEN Append(sigInt, sg) ELSE sigInt
                /\ first' = IF first = "none" THEN "sig" ELSE first
                /\ pc' = pc
           ELSE /\ pc' = "killed"
                /\ UNCHANGED <<sigInt, first>>
    /\ UNCHANGED <<cli, chainVars, h, gpc, goErr, errCh, notified, srv, port, inflight,
                   branch, err, shutErr, log, result, shutHist, drvHist>>

\* The OS delivers SIGINT or SIGTERM. Once signal.Notify has run the signal
\* is sent to sigInt without blocking (dropped when the buffer is full);
\* before that the default disposition ends the process.
Signal ==
    /\ ProcAlive
    /\ pc # "api"
    /\ sigsSent < MaxSignals
    /\ sigsSent' = sigsSent + 1
    /\ \E sg \in Signals :
         IF notified
           THEN /\ sigInt' = IF Len(sigInt) < ChanCap THEN Append(sigInt, sg) ELSE sigInt
                /\ first' = IF first = "none" THEN "sig" ELSE first
                /\ pc' = pc
           ELSE /\ pc' = "killed"
                /\ UNCHANGED <<sigInt, first>>
    /\ UNCHANGED <<cli, chainVars, h, gpc, goErr, errCh, notified, srv, port, inflight,
                   branch, err, shutErr, log, result, shutHist, drvHist>>

\* ------------------------------------------------------------ RunServer
\* lgr := logging.InitLogger(); s := New(...); s.Addr = ":8081"
RsNew ==
    /\ pc = "new"
    /\ log' = Append(log, LogInit)
    /\ srv' = [New EXCEPT !.Addr = ListenAddr]
    /\ pc' = "spawn"
    /\ UNCHANGED <<cli, chainVars, h, gpc, goErr, errCh, sigInt, notified, sigsSent, port, inflight,
                   branch, err, shutErr, result, shutHist, drvHist, first>>

\* Variant: after launching the goroutine the orchestrator calls
\* s.ListenAndServe() itself as well.
RsSpawn_ListensToo ==
    /\ pc = "spawn"
    /\ errCh' = <<>>
    /\ gpc' = "spawned"
    /\ pc' = "notify"
    /\ h' = [h EXCEPT !.listenCalls = @ + 1, !.active = @ + 1]
    /\ UNCHANGED <<cli, chainVars, goErr, sigInt, notified, sigsSent, srv, port, inflight,
                   branch, err, shutErr, log, result, shutHist, drvHist, first>>

\* errCh := make(chan error, 1); go func() { ... }()
RsSpawn ==
    /\ pc = "spawn"
    /\ errCh' = <<>>
    /\ gpc' = "spawned"
    /\ pc' = "notify"
    /\ UNCHANGED <<cli, chainVars, h, goErr, sigInt, notified, sigsSent, srv, port, inflight,
                   branch, err, shutErr, log, result, shutHist, drvHist, first>>

\* Variant: the bind address is set after the goroutine has been launched.
RsNotify_SetsAddr ==
    /\ pc = "notify"
    /\ sigInt' = <<>>
    /\ notified' = TRUE
    /\ srv' = [srv EXCEPT !.Addr = ":8082"]
    /\ pc' = "select"
    /\ UNCHANGED <<cli, chainVars, h, gpc, goErr, errCh, sigsSent, port, inflight,
                   branch, err, shutErr, log, result, shutHist, drvHist, first>>

\* sigInt := make(chan os.Signal, 1); signal.Notify(sigInt, os.Interrupt, SIGTERM)
RsNotify ==
    /\ pc = "notify"
    /\ sigInt' = <<>>
    /\ notified' = TRUE
    /\ pc' = "select"
    /\ UNCHANGED <<cli, chainVars, h, gpc, goErr, errCh, sigsSent, srv, port, inflight,
                   branch, err, shutErr, log, result, shutHist, drvHist, first>>

\* Variant: the error case falls into the shutdown code as well.
RsSelectErr_ThenShutdown ==
    /\ pc = "select"
    /\ errCh # <<>>
    /\ err' = Head(errCh)
    /\ errCh' = Tail(errCh)
    /\ branch' = "err"
    /\ log' = Append(log, LogStartErr)
    /\ pc' = "shutdown"
    /\ UNCHANGED <<cli, chainVars, h, gpc, goErr, sigInt, notified, sigsSent, srv, port, inflight,
                   shutErr, result, shutHist, drvHist, first>>

\* case err := <-errCh: lgr.Info().Msgf("server start error: %v", err)
RsSelectErr ==
    /\ pc = "select"
    /\ errCh # <<>>
    /\ err' = Head(errCh)
    /\ errCh' = Tail(errCh)
    /\ branch' = "err"
    /\ log' = Append(log, LogStartErr)
    /\ pc' = "return"
    /\ UNCHANGED <<cli, chainVars, h, gpc, goErr, sigInt, notified, sigsSent, srv, port, inflight,
                   shutErr, result, shutHist, drvHist, first>>

\* case <-sigInt: lgr.Info().Msgf("shutdown signal received")
RsSelectSig ==
    /\ pc = "select"
    /\ sigInt # <<>>
    /\ sigInt' = Tail(sigInt)
    /\ branch' = "sig"
    /\ log' = Append(log, LogSignal)
    /\ pc' = "shutdown"
    /\ UNCHANGED <<cli, chainVars, h, gpc, goErr, errCh, notified, sigsSent, srv, port, inflight,
                   err, shutErr, result, shutHist, drvHist, first>>

\* The listening socket has been bound at some point of the run.
EverBound == gpc = "serving" \/ goErr = EACCEPT

\* One record of the histories: what a Shutdown call with deadline d saw
\* (the goroutine's position, whether the socket is bound, the requests in
\* flight) and what it returned and left behind.
ShutRecord(d, r) ==
    [d |-> d, phase |-> gpc, running |-> (port = "ours"), bound |-> EverBound,
     inflight |-> inflight, ret |-> r.ret, same |-> (r.w = World),
     after |-> r.w.inflight]

\* The call s.Shutdown(ctx) with deadline d, as both specifications make it:
\* every Driver.Shutdown call it makes is entered in drvHist.
CallServerShutdown(d) ==
    LET r == ServerShutdown(World, d) IN
    /\ srv' = r.w.srv
    /\ port' = r.w.port
    /\ inflight' = r.w.inflight
    /\ shutErr' = r.ret
    /\ shutHist' = Append(shutHist, ShutRecord(d, r) @@ [delegated |-> r.delegated])
    /\ drvHist' = drvHist \o [i \in 1..Len(r.delegated) |->
                                ShutRecord(r.delegated[i], r) @@ [via |-> "server"]]

\* Variant: the select sits in a for loop, so the orchestrator waits again
\* after a shutdown.
RsShutdown_Loop ==
    /\ pc = "shutdown"
    /\ CallServerShutdown(ShutdownGrace)
    /\ log' = IF shutErr' # Nil THEN Append(log, LogShutErr) ELSE log
    /\ pc' = "select"
    /\ UNCHANGED <<cli, chainVars, h, gpc, goErr, errCh, sigInt, notified, sigsSent,
                   branch, err, result, first>>

\* ctx, cancel := context.WithTimeout(ctx, 5*time.Second)
\* if err := s.Shutdown(ctx); err != nil { lgr.Info().Msgf("graceful shutdown error") }
RsShutdown ==
    /\ pc = "shutdown"
    /\ CallServerShutdown(ShutdownGrace)
    /\ log' = IF shutErr' # Nil THEN Append(log, LogShutErr) ELSE log
    /\ pc' = "return"
    /\ UNCHANGED <<cli, chainVars, h, gpc, goErr, errCh, sigInt, notified, sigsSent,
                   branch, err, result, first>>

\* Variant: an interrupted run is reported as a failure.
RunServerReturn_FailOnSignal(b, e, se) == IF b = "sig" THEN "interrupted" ELSE Nil

\* return nil (RunServer, line 100); Run returns server.RunServer().
RunServerReturn(b, e, se) == Nil

RsReturn ==
    /\ pc = "return"
    /\ result' = RunServerReturn(branch, err, shutErr)
    /\ pc' = "done"
    /\ UNCHANGED <<cli, chainVars, h, gpc, goErr, errCh, sigInt, notified, sigsSent, srv, port, inflight,
                   branch, err, shutErr, log, shutHist, drvHist, first>>

\* ------------------------------------------------------- the API caller
\* go func() { errCh <- s.ListenAndServe() }() on a constructed Server.
ApiStart ==
    /\ pc = "api"
    /\ gpc = "none"
    /\ gpc' = "spawned"
    /\ UNCHANGED <<cli, chainVars, h, pc, goErr, errCh, sigInt, notified, sigsSent, srv, port, inflight,
                   branch, err, shutErr, log, result, shutHist, drvHist, first>>

\* s.Shutdown(ctx), ctx carrying a deadline d.
ApiShutdown ==
    /\ pc = "api"
    /\ Len(shutHist) + Len(drvHist) < MaxShutdownCalls
    /\ \E d \in 0..MaxDeadline : CallServerShutdown(d)
    /\ UNCHANGED <<cli, chainVars, h, pc, gpc, goErr, errCh, sigInt, notified, sigsSent,
                   branch, err, log, result, first>>

\* s.Driver.Shutdown(ctx), ctx carrying a deadline d.
ApiDriverShutdown ==
    /\ pc = "api"
    /\ Len(shutHist) + Len(drvHist) < MaxShutdownCalls
    /\ \E d \in 0..MaxDeadline :
         LET r == DriverShutdown(World, d) IN
         /\ srv' = r.w.srv
         /\ port' = r.w.port
         /\ inflight' = r.w.inflight
         /\ drvHist' = Append(drvHist, ShutRecord(d, r) @@ [via |-> "direct"])
    /\ UNCHANGED <<cli, chainVars, h, pc, gpc, goErr, errCh, sigInt, notified, sigsSent,
                   branch, err, shutErr, log, result, shutHist, first>>

\* ----------------------------------------------------- middleware chain
\* The stages of the chain, by the function that makes each.
StLogger == "hlog.NewHandler"
StAccess == "hlog.AccessHandler"
StRemote == "hlog.RemoteAddrHandler"
StAuth == "authHandler"
StTerminal == "handleGetVersion"
StNotFound == "http.NotFound"
StNotAllowed == "http.MethodNotAllowed"

RoutePattern == "GET /api"
RouteMethod == "GET"
RoutePath == "/api"
RemoteKey == "remove_ip"
LogRequest == "request logged"

\* The requests a client sends.
Methods == {"GET", "POST"}
Paths == {"/api", "/other"}
Remotes == {"10.0.0.1:40000", "10.0.0.2:40001"}

\* A handler is the sequence of its stages, outermost first: Wrap(mw, hnd)
\* is the handler mw(hnd), whose stage mw runs and then calls hnd.
Wrap(mw, hnd) == <<mw>> \o hnd

\* Variant: the remote-address stage is placed before the logger is attached.
LoggerChain_RemoteFirst == <<StRemote, StLogger, StAccess>>

\* loggerChain: alice.New(hlog.NewHandler(s.Logger), hlog.AccessHandler(...),
\* hlog.RemoteAddrHandler("remove_ip")), the constructors in the order given.
LoggerChain == <<StLogger, StAccess, StRemote>>

\* Chain.Append(s.authHandler)
ChainAppend(c, mw) == Append(c, mw)

\* Chain.Then(h) wraps h with the constructors from the last to the first, so
\* that the first constructor makes the outermost stage.
RECURSIVE ThenFrom(_, _, _)
ThenFrom(c, i, hnd) == IF i = 0 THEN hnd ELSE ThenFrom(c, i - 1, Wrap(c[i], hnd))

\* Variant: the constructors are applied from the first to the last.
RECURSIVE ThenUpFrom(_, _, _)
ThenUpFrom(c, i, hnd) ==
    IF i > Len(c) THEN hnd ELSE ThenUpFrom(c, i + 1, Wrap(c[i], hnd))

Then_FirstInnermost(c, hnd) == ThenUpFrom(c, 1, hnd)

Then(c, hnd) == ThenFrom(c, Len(c), hnd)

\* Chain.ThenFunc(s.handleGetVersion)
ThenFunc(c, fn) == Then(c, <<fn>>)

PanicConflict == "panic: pattern GET /api conflicts with pattern GET /api"

\* ServeMux.Handle(pattern, handler): panics when the pattern conflicts with
\* one already registered, before anything is added; it returns no value.
MuxHandle(mux, pattern, hnd) ==
    IF pattern \in DOMAIN mux
      THEN [mux |-> mux, panic |-> PanicConflict]
      ELSE [mux |-> (pattern :> hnd) @@ mux, panic |-> Nil]

\* registerRoutes: s.mux.Handle("GET /api", loggerChain().Append(authHandler).ThenFunc(...))
RegisterRoutes(mux) ==
    MuxHandle(mux, RoutePattern, ThenFunc(ChainAppend(LoggerChain, StAuth), StTerminal))

\* ServeMux dispatch: the route's handler for a GET of /api, 405 for another
\* method on that path, 404 for any other path.
Dispatch(mux, method, path) ==
    IF RoutePattern \in DOMAIN mux /\ path = RoutePath
      THEN IF method = RouteMethod THEN mux[RoutePattern] ELSE <<StNotAllowed>>
      ELSE <<StNotFound>>

\* The request's context carries a logger at stage pos when an outer stage is
\* hlog.NewHandler (r.WithContext(l.WithContext(r.Context()))).
LoggerAt(r, pos) == \E j \in 1..(pos - 1) : r.handler[j] = StLogger

\* The request context a stage at pos is called with: whether it carries a
\* logger, and the fields added to that logger.
Context(r, pos) == [logger |-> LoggerAt(r, pos), fields |-> r.fields]

\* Variant: the gate hands the request on with a fresh context.
AuthHandler_FreshContext(r) == [r EXCEPT !.fields = <<>>]

\* authHandler: h.ServeHTTP(w, r.WithContext(r.Context())), a copy of the
\* request with the context it came with; nothing is written to w.
AuthHandler(r) == r

\* Variant: the gate returns without calling the next handler.
Forwards_AuthStops(st) ==
    IF st \in {StTerminal, StNotFound, StNotAllowed, StAuth} THEN 0 ELSE 1

\* How many times a stage calls the handler it wraps: the terminal handler
\* and the mux's own handlers wrap none, every middleware calls it once.
Forwards(st) == IF st \in {StTerminal, StNotFound, StNotAllowed} THEN 0 ELSE 1

\* What a stage does before it calls the next one (or, the innermost, all it
\* does): RemoteAddrHandler adds the caller's address to the context's logger,
\* the mux's own handlers answer 404 and 405, the others change nothing here.
EnterStage(r, pos) ==
    LET st == r.handler[pos]
        r1 == [r EXCEPT !.trace = Append(@, <<"enter", st>>),
                        !.ctxs = Append(@, Context(r, pos))]
    IN CASE st = StRemote /\ r.remote # "" /\ LoggerAt(r, pos) ->
                [r1 EXCEPT !.fields = (RemoteKey :> r.remote) @@ @]
         [] st = StAuth -> AuthHandler(r1)
         [] st = StNotFound -> [r1 EXCEPT !.status = 404]
         [] st = StNotAllowed -> [r1 EXCEPT !.status = 405]
         [] OTHER -> r1

\* The entry the access recorder's callback writes: hlog.FromRequest(r).Info().
\* Str("method", r.Method).Msg("request logged"), with the logger's own fields.
AccessEntry(r) ==
    [id |-> r.id, method |-> r.method, path |-> r.path, remote |-> r.remote,
     afterTerminal |-> (\E k \in DOMAIN r.trace : r.trace[k] = <<"return", StTerminal>>),
     rec |-> ("level" :> "info") @@ ("time" :> "unix") @@ ("method" :> r.method)
             @@ ("message" :> LogRequest) @@ r.fields]

\* The entries a stage writes after the next one has returned: the access
\* recorder's deferred callback, which needs the logger of its request.
ExitEntries(r, pos) ==
    IF r.handler[pos] = StAccess /\ LoggerAt(r, pos) THEN <<AccessEntry(r)>> ELSE <<>>

\* The test of the chain calls s.registerRoutes(), which has no result value;
\* a panic of the multiplexer is not recovered and ends the caller.
ChRegister ==
    /\ pc = "chain"
    /\ LET r == RegisterRoutes(srv.mux) IN
         /\ srv' = [srv EXCEPT !.mux = r.mux]
         /\ pc' = IF r.panic = Nil THEN pc ELSE "panicked"
         /\ h' = [h EXCEPT !.regHist = Append(@,
                     [conflict |-> (RoutePattern \in DOMAIN srv.mux), ret |-> "none",
                      panic |-> r.panic, same |-> (r.mux = srv.mux)])]
    /\ UNCHANGED <<cli, chainVars, gpc, goErr, errCh, sigInt, notified, sigsSent,
                   port, inflight, branch, err, shutErr, log, result, shutHist,
                   drvHist, first>>

\* A request arrives and the multiplexer picks its handler.
ReqStart ==
    /\ pc = "chain"
    /\ req.dir = "done"
    /\ req.id < MaxRequests
    /\ \E m \in Methods, p \in Paths, ra \in Remotes :
         req' = [id |-> req.id + 1, method |-> m, path |-> p, remote |-> ra,
                 handler |-> Dispatch(srv.mux, m, p), pos |-> 1, dir |-> "down",
                 fields |-> <<>>, trace |-> <<>>, status |-> 0, ctxs |-> <<>>]
    /\ UNCHANGED <<cli, accessLog, h, pc, gpc, goErr, errCh, sigInt, notified, sigsSent,
                   srv, port, inflight, branch, err, shutErr, log, result, shutHist,
                   drvHist, first>>

\* The request enters the next stage; the innermost stage returns.
ReqEnter ==
    /\ pc = "chain"
    /\ req.id # 0 /\ req.dir = "down"
    /\ LET r == EnterStage(req, req.pos) IN
         req' = IF req.pos = Len(req.handler) \/ Forwards(req.handler[req.pos]) = 0
                  THEN [r EXCEPT !.dir = "up", !.pos = @ - 1,
                                 !.trace = Append(@, <<"return", req.handler[req.pos]>>)]
                  ELSE [r EXCEPT !.pos = @ + 1]
    /\ UNCHANGED <<cli, accessLog, h, pc, gpc, goErr, errCh, sigInt, notified, sigsSent,
                   srv, port, inflight, branch, err, shutErr, log, result, shutHist,
                   drvHist, first>>

\* Variant: the access recorder's callback is run twice.
ReqExit_LogsTwice ==
    /\ pc = "chain"
    /\ req.id # 0 /\ req.dir = "up" /\ req.pos >= 1
    /\ accessLog' = accessLog \o ExitEntries(req, req.pos) \o ExitEntries(req, req.pos)
    /\ req' = [req EXCEPT !.pos = @ - 1,
                          !.trace = Append(@, <<"return", req.handler[req.pos]>>)]
    /\ UNCHANGED <<cli, h, pc, gpc, goErr, errCh, sigInt, notified, sigsSent,
                   srv, port, inflight, branch, err, shutErr, log, result, shutHist,
                   drvHist, first>>

\* The stage the request returns into runs what it deferred, and returns.
ReqExit ==
    /\ pc = "chain"
    /\ req.id # 0 /\ req.dir = "up" /\ req.pos >= 1
    /\ accessLog' = accessLog \o ExitEntries(req, req.pos)
    /\ req' = [req EXCEPT !.pos = @ - 1,
                          !.trace = Append(@, <<"return", req.handler[req.pos]>>)]
    /\ UNCHANGED <<cli, h, pc, gpc, goErr, errCh, sigInt, notified, sigsSent,
                   srv, port, inflight, branch, err, shutErr, log, result, shutHist,
                   drvHist, first>>

\* The outermost stage has returned: net/http sends 200 when the handler
\* wrote no status.
ReqFinish ==
    /\ pc = "chain"
    /\ req.id # 0 /\ req.dir = "up" /\ req.pos = 0
    /\ req' = [req EXCEPT !.dir = "done", !.status = IF @ = 0 THEN 200 ELSE @]
    /\ h' = IF req.handler[Len(req.handler)] = StTerminal
              THEN [h EXCEPT !.chainServed = @ \cup {req.id}]
              ELSE h
    /\ UNCHANGED <<cli, accessLog, pc, gpc, goErr, errCh, sigInt, notified, sigsSent,
                   srv, port, inflight, branch, err, shutErr, log, result, shutHist,
                   drvHist, first>>

\* ---------------------------------------------------- generated client
\* Texts are sequences of characters. All the sequences over S of length <= n.
SeqsUpTo(S, n) == UNION {[1..k -> S] : k \in 0..n}

HexDigits ==
    {"0", "1", "2", "3", "4", "5", "6", "7", "8", "9",
     "a", "b", "c", "d", "e", "f", "A", "B", "C", "D", "E", "F"}

\* url.Parse of a text with no scheme, authority, query or fragment: the
\* path is unescaped, which fails on a % not followed by two hex digits.
URLParseErr(t) ==
    IF \E i \in DOMAIN t :
          /\ t[i] = "%"
          /\ ~(i + 2 <= Len(t) /\ t[i + 1] \in HexDigits /\ t[i + 2] \in HexDigits)
      THEN "invalid URL escape"
      ELSE Nil

\* URL.String() of such a text once parsed: the path as it was given when that
\* is a valid encoding, else escaped again (a space becomes %20).
RECURSIVE URLString(_)
URLString(t) ==
    IF t = <<>> THEN <<>>
    ELSE (IF Head(t) = " " THEN <<"%", "2", "0">> ELSE <<Head(t)>>) \o URLString(Tail(t))

\* strings.HasSuffix(s, "/")
HasSuffixSlash(t) == Len(t) > 0 /\ t[Len(t)] = "/"

\* Request editors, by name, and the error each returns.
Editors == {"edOk", "edFailA", "edFailB"}

EditorErr(ed) ==
    CASE ed = "edFailA" -> "errA"
      [] ed = "edFailB" -> "errB"
      [] OTHER -> Nil

DefaultDoer == "&http.Client{}"

\* Client{}: the zero value.
ZeroClient == [Server |-> <<>>, Client |-> Nil, RequestEditors |-> <<>>]

\* A ClientOption, by the function that makes it and that function's argument.
Option(kind, doer, ed, url) == [kind |-> kind, doer |-> doer, ed |-> ed, url |-> url]

WithHTTPClient(doer) == Option("WithHTTPClient", doer, "", <<>>)

WithRequestEditorFn(fn) == Option("WithRequestEditorFn", "", fn, <<>>)

WithBaseURL(baseURL) == Option("WithBaseURL", "", "", baseURL)

\* An option of the caller's own that returns an error.
FailingOption == Option("failing", "", "", <<>>)

\* o(&client): the client the option leaves and the error it returns.
ApplyOption(o, c) ==
    CASE o.kind = "WithHTTPClient" -> [c |-> [c EXCEPT !.Client = o.doer], err |-> Nil]
      [] o.kind = "WithRequestEditorFn" ->
            [c |-> [c EXCEPT !.RequestEditors = Append(@, o.ed)], err |-> Nil]
      [] o.kind = "WithBaseURL" ->
            IF URLParseErr(o.url) # Nil
              THEN [c |-> c, err |-> URLParseErr(o.url)]
              ELSE [c |-> [c EXCEPT !.Server = URLString(o.url)], err |-> Nil]
      [] OTHER -> [c |-> c, err |-> "option failed"]

\* for _, o := range opts { if err := o(&client); err != nil { return nil, err } }
RECURSIVE ApplyOptions(_, _, _)
ApplyOptions(c, opts, i) ==
    IF i > Len(opts) THEN [c |-> c, err |-> Nil, applied |-> Len(opts)]
    ELSE LET r == ApplyOption(opts[i], c)
         IN IF r.err # Nil THEN [c |-> r.c, err |-> r.err, applied |-> i]
            ELSE ApplyOptions(r.c, opts, i + 1)

\* Variant: the slash is added whatever the server text ends with.
NewClient_AlwaysSlash(server, opts) ==
    LET r == ApplyOptions([ZeroClient EXCEPT !.Server = server], opts, 1)
    IN IF r.err # Nil
         THEN [isNil |-> TRUE, client |-> ZeroClient, err |-> r.err, applied |-> r.applied]
         ELSE [isNil |-> FALSE,
               client |-> [r.c EXCEPT
                  !.Server = @ \o <<"/">>,
                  !.Client = IF @ = Nil THEN DefaultDoer ELSE @],
               err |-> Nil, applied |-> r.applied]

\* NewClient(server, opts...): nil and the error of the first option that
\* fails; else the client with a trailing slash on Server and a Doer.
NewClient(server, opts) ==
    LET r == ApplyOptions([ZeroClient EXCEPT !.Server = server], opts, 1)
    IN IF r.err # Nil
         THEN [isNil |-> TRUE, client |-> ZeroClient, err |-> r.err, applied |-> r.applied]
         ELSE [isNil |-> FALSE,
               client |-> [r.c EXCEPT
                  !.Server = IF HasSuffixSlash(@) THEN @ ELSE @ \o <<"/">>,
                  !.Client = IF @ = Nil THEN DefaultDoer ELSE @],
               err |-> Nil, applied |-> r.applied]

\* The loop of applyEditors over one list: each editor is called with the
\* request and the first error ends the loop.
RECURSIVE RunEditors(_, _, _)
RunEditors(eds, i, rq) ==
    IF i > Len(eds) THEN [err |-> Nil, rq |-> rq]
    ELSE LET rq1 == [rq EXCEPT !.edits = Append(@, eds[i])]
         IN IF EditorErr(eds[i]) # Nil THEN [err |-> EditorErr(eds[i]), rq |-> rq1]
            ELSE RunEditors(eds, i + 1, rq1)

\* Variant: the per-call editors run also after a client editor has failed.
ApplyEditors_KeepsGoing(c, rq, additionalEditors) ==
    LET a == RunEditors(c.RequestEditors, 1, rq)
        b == RunEditors(additionalEditors, 1, a.rq)
    IN [err |-> IF a.err # Nil THEN a.err ELSE b.err, rq |-> b.rq]

\* applyEditors: the client's RequestEditors, then additionalEditors.
ApplyEditors(c, rq, additionalEditors) ==
    LET a == RunEditors(c.RequestEditors, 1, rq)
    IN IF a.err # Nil THEN a ELSE RunEditors(additionalEditors, 1, a.rq)

\* The methods of Client, each with the operation path its request is built for.
Ops ==
    {"Login", "LoginWithBody", "Logout", "LogoutWithBody",
     "GetAccessTokenWithRefreshToken", "GetAccessTokenWithRefreshTokenWithBody",
     "GetAccessTokenWithAuthorizationRequest",
     "GetAccessTokenWithAuthorizationRequestWithBody"}

OperationPath(op) ==
    CASE op \in {"Login", "LoginWithBody"} -> "/csp/gateway/am/api/login"
      [] op \in {"Logout", "LogoutWithBody"} -> "/csp/gateway/am/api/auth/logout"
      [] op \in {"GetAccessTokenWithRefreshToken",
                 "GetAccessTokenWithRefreshTokenWithBody"} ->
            "/csp/gateway/am/api/auth/api-tokens/authorize"
      [] OTHER -> "/csp/gateway/am/api/auth/authorize"

\* New<Op>Request(server, ...): url.Parse(server) may fail; else a POST request.
NewRequest(op, server) ==
    [err |-> URLParseErr(server),
     rq |-> [method |-> "POST", base |-> server, path |-> OperationPath(op),
             edits |-> <<>>]]

\* What c.Client.Do(req) may return.
DoOutcomes ==
    {[resp |-> "200 OK", err |-> Nil],
     [resp |-> "nil", err |-> "dial tcp: connection refused"]}

NoCall == [op |-> "", eds |-> <<>>, resp |-> "nil", err |-> Nil, edits |-> <<>>, doCalls |-> 0]

\* func (c *Client) <Op>(ctx, ..., reqEditors...): build the request, apply
\* the editors, send it with the Doer; do is what the Doer returns if called.
ClientCall(c, op, reqEditors, do) ==
    LET b == NewRequest(op, c.Server)
        a == ApplyEditors(c, b.rq, reqEditors)
    IN IF b.err # Nil
         THEN [op |-> op, eds |-> reqEditors, resp |-> "nil", err |-> b.err,
               edits |-> <<>>, doCalls |-> 0]
       ELSE IF a.err # Nil
         THEN [op |-> op, eds |-> reqEditors, resp |-> "nil", err |-> a.err,
               edits |-> a.rq.edits, doCalls |-> 0]
       ELSE [op |-> op, eds |-> reqEditors, resp |-> do.resp, err |-> do.err,
             edits |-> a.rq.edits, doCalls |-> 1]

NoOut == [isNil |-> TRUE, client |-> ZeroClient, err |-> Nil, applied |-> 0]

\* No client is constructed in the runs of the server.
NoClient == [phase |-> "none", server |-> <<>>, opts |-> <<>>, out |-> NoOut, call |-> NoCall]

\* The arguments NewClient is given: server texts, and options.
ServerTexts == SeqsUpTo({"a", "/"}, MaxLen)

BaseURLs == {<<"b">>, <<"b", "/">>, <<"b", " ">>, <<"%">>}

Options ==
    {WithHTTPClient("doerA"), WithHTTPClient(Nil), WithRequestEditorFn("edOk"),
     FailingOption} \cup {WithBaseURL(u) : u \in BaseURLs}

\* c, err := NewClient(server, opts...)
ClNewClient ==
    /\ pc = "client"
    /\ cli.phase = "args"
    /\ cli' = [cli EXCEPT !.phase = "made", !.out = NewClient(cli.server, cli.opts)]
    /\ UNCHANGED <<chainVars, h, pc, gpc, goErr, errCh, sigInt, notified, sigsSent,
                   srv, port, inflight, branch, err, shutErr, log, result, shutHist,
                   drvHist, first>>

\* One of the client's methods is called with per-call editors; a call
\* leaves the client as it is, so one call is followed from each client.
ClCall ==
    /\ pc = "client"
    /\ cli.phase = "made"
    /\ ~cli.out.isNil
    /\ \E op \in Ops, eds \in SeqsUpTo(Editors, MaxEditors), do \in DoOutcomes :
         cli' = [cli EXCEPT !.phase = "called",
                            !.call = ClientCall(cli.out.client, op, eds, do)]
    /\ UNCHANGED <<chainVars, h, pc, gpc, goErr, errCh, sigInt, notified, sigsSent,
                   srv, port, inflight, branch, err, shutErr, log, result, shutHist,
                   drvHist, first>>

\* ------------------------------------------------------- specifications
InitCommon ==
    /\ gpc = "none"
    /\ goErr = Nil
    /\ errCh = <<>>
    /\ sigInt = <<>>
    /\ notified = FALSE
    /\ sigsSent = 0
    /\ port \in {"free", "other"}
    /\ inflight = 0
    /\ branch = "none"
    /\ err = Nil
    /\ shutErr = Nil
    /\ log = <<>>
    /\ result = "none"
    /\ shutHist = <<>>
    /\ drvHist = <<>>
    /\ first = "none"
    /\ h = [listenCalls |-> 0, binds |-> 0, active |-> 0, drvRet |-> Nil,
            chainServed |-> {}, regHist |-> <<>>]
    /\ req = NoRequest
    /\ accessLog = <<>>

Init ==
    /\ pc = "new"
    /\ srv = New
    /\ cli = NoClient
    /\ InitCommon

Next ==
    \/ RsNew
    \/ RsSpawn
    \/ RsNotify
    \/ RsSelectErr
    \/ RsSelectSig
    \/ RsShutdown
    \/ RsReturn
    \/ GoStart
    \/ GoBind
    \/ GoAcceptError
    \/ GoSend
    \/ RequestArrive
    \/ RequestDone
    \/ Signal

Spec == Init /\ [][Next]_vars

ApiInit ==
    /\ pc = "api"
    /\ srv = [New EXCEPT !.Addr = ListenAddr]
    /\ cli = NoClient
    /\ InitCommon

ApiNext ==
    \/ ApiStart
    \/ ApiShutdown
    \/ ApiDriverShutdown
    \/ GoStart
    \/ GoBind
    \/ GoAcceptError
    \/ GoSend
    \/ RequestArrive
    \/ RequestDone

ApiSpec == ApiInit /\ [][ApiNext]_vars

ChainInit ==
    /\ pc = "chain"
    /\ srv = [New EXCEPT !.Addr = ListenAddr]
    /\ cli = NoClient
    /\ InitCommon

ChainNext ==
    \/ ChRegister
    \/ ReqStart
    \/ ReqEnter
    \/ ReqExit
    \/ ReqFinish

ChainSpec == ChainInit /\ [][ChainNext]_vars

\* NewClient is given a server text and a list of options.
ClientInit ==
    /\ pc = "client"
    /\ srv = New
    /\ \E t \in ServerTexts, os \in SeqsUpTo(Options, MaxOpts) :
         cli = [NoClient EXCEPT !.phase = "args", !.server = t, !.opts = os]
    /\ InitCommon

ClientNext == ClNewClient

ClientSpec == ClientInit /\ [][ClientNext]_vars

\* The server texts of the clients that make calls: two that parse, one that
\* does not.
CallServers == {<<"a">>, <<"a", "/">>, <<"%">>}

\* A client made by NewClient with request editors, about to make calls.
CallInit ==
    /\ pc = "client"
    /\ srv = New
    /\ \E t \in CallServers, es \in SeqsUpTo(Editors, MaxEditors) :
         LET os == [i \in 1..Len(es) |-> WithRequestEditorFn(es[i])]
         IN cli = [NoClient EXCEPT !.phase = "made", !.server = t, !.opts = os,
                                   !.out = NewClient(t, os)]
    /\ InitCommon

CallNext == ClCall

CallSpec == CallInit /\ [][CallNext]_vars

\* --------------------------------------------------------------- claims
Logged(m) == \E i \in DOMAIN log : log[i] = m

\* C1: in every run of RunServer, whatever the interleaving and however many
\* signals arrive, Server.Shutdown is invoked at most once.
C1_ShutdownAtMostOnce == Len(shutHist) <= 1

\* A finished run that shut down once although several signals were delivered.
C1_Witness == pc = "done" /\ Len(shutHist) = 1 /\ sigsSent >= 2

\* C2: whenever Server.Shutdown is called, the serving goroutine has already
\* bound the listening socket.
C2_ShutdownAfterBind == \A i \in DOMAIN shutHist : shutHist[i].bound

\* C3 as stated: the source that fired first decides the branch: error first
\* means no Shutdown ever, signal first means Shutdown once with the grace period.
C3_FirstSourceDecides ==
    pc = "done" =>
       /\ first = "err" => (branch = "err" /\ shutHist = <<>>)
       /\ first = "sig" => /\ branch = "sig"
                           /\ Len(shutHist) = 1
                           /\ shutHist[1].d = ShutdownGrace

\* C3 amended: a run takes exactly one branch, and one whose source has fired
\* (with both fired, either): the error branch logs the error Start returned
\* and never invokes Shutdown; the signal branch invokes Shutdown exactly once,
\* with the 5-unit grace period, before the run ends.
C3_OneBranch ==
    /\ pc = "done" => branch \in {"err", "sig"}
    /\ branch = "err" =>
          /\ gpc = "done" /\ err = goErr /\ err # Nil
          /\ Logged(LogStartErr) /\ ~Logged(LogSignal)
          /\ shutHist = <<>>
    /\ branch = "sig" =>
          /\ sigsSent > 0 /\ notified
          /\ Logged(LogSignal) /\ ~Logged(LogStartErr)
          /\ Len(shutHist) = (IF pc = "shutdown" THEN 0 ELSE 1)
          /\ \A i \in DOMAIN shutHist : shutHist[i].d = ShutdownGrace

\* A finished run whose signal branch was taken although the error fired first.
C3_Witness == pc = "done" /\ branch = "sig" /\ first = "err" /\ Len(shutHist) = 1

\* C4: when Start fails, RunServer (and Run) returns that error, not success.
C4_StartErrorPropagates ==
    (pc = "done" /\ branch = "err") => (result # Nil /\ result = err)

\* C5: on the signal path RunServer returns success whatever Shutdown
\* returned; a Shutdown error is logged and nothing more.
C5_SignalPathReturnsNil ==
    (pc = "done" /\ branch = "sig") =>
       /\ result = Nil
       /\ Logged(LogShutErr) <=> (shutErr # Nil)

\* A run that ended on the signal path after its Shutdown call.
C5_Witness == pc = "done" /\ branch = "sig" /\ Len(shutHist) = 1 /\ result # "none"

\* C6: every Server.Shutdown(deadline) makes exactly one Driver.Shutdown
\* call, with the same deadline.
C6_ShutdownDelegates ==
    \A i \in DOMAIN shutHist : shutHist[i].delegated = <<shutHist[i].d>>

\* C7: once Shutdown has returned after Start bound the socket, the address
\* is no longer bound by the server.
C7_SocketReleased ==
    (\E i \in DOMAIN shutHist : shutHist[i].running) => port # "ours"

\* C8: Driver.Shutdown(deadline) stops the accepting of connections; with
\* requests still running at the deadline it abandons them and returns a
\* ShutdownTimeoutError, with none it returns success.
C8_DriverShutdownContract ==
    /\ (\E i \in DOMAIN drvHist : drvHist[i].phase = "serving") => gpc # "serving"
    /\ \A i \in DOMAIN drvHist :
          /\ (drvHist[i].d = 0 /\ drvHist[i].inflight > 0) =>
                (drvHist[i].ret = "ShutdownTimeoutError" /\ drvHist[i].after = 0)
          /\ drvHist[i].inflight = 0 => drvHist[i].ret = Nil

\* C9: from every reachable state, a second Shutdown right after a first
\* returns what the first returned and leaves the state the first left.
C9_ShutdownIdempotent ==
    \A d \in 0..MaxDeadline :
       LET once == ServerShutdown(World, d)
           twice == ServerShutdown(once.w, d)
           dOnce == DriverShutdown(World, d)
           dTwice == DriverShutdown(dOnce.w, d)
       IN /\ twice.ret = once.ret /\ twice.w = once.w
          /\ dTwice.ret = dOnce.ret /\ dTwice.w = dOnce.w

\* Two Shutdown calls made while the server is serving a request.
C9_Witness ==
    /\ Len(shutHist) = 2
    /\ \A i \in 1..2 : shutHist[i].phase = "serving" /\ shutHist[i].inflight > 0
    /\ gpc = "serving"

\* C10: Shutdown with no server running (Start not called, not yet bound, or
\* failed) returns success and changes nothing of the Server and Driver.
C10_ShutdownNoServerNoop ==
    /\ port # "ours" =>
          \A d \in 0..MaxDeadline :
             /\ ServerShutdown(World, d).ret = Nil
             /\ ServerShutdown(World, d).w = World
    /\ \A i \in DOMAIN shutHist :
          ~shutHist[i].running => (shutHist[i].ret = Nil /\ shutHist[i].same)
    /\ \A i \in DOMAIN drvHist :
          ~drvHist[i].running => (drvHist[i].ret = Nil /\ drvHist[i].same)

\* Shutdown was called before Start and again after the bind had failed.
C10_Witness ==
    /\ Len(shutHist) = 2
    /\ shutHist[1].phase = "none"
    /\ shutHist[2].phase \in {"send", "done"}
    /\ goErr = EADDRINUSE

\* The chain the spec names, outermost first: logging injector, access-log
\* recorder, remote-address recorder, authentication gate, terminal handler.
FullChain == <<StLogger, StAccess, StRemote, StAuth, StTerminal>>

\* C11: when the driver is invoked, and while the server is serving, the
\* multiplexer holds the route GET /api wrapped by the full middleware chain.
C11_RoutesBeforeListen ==
    gpc \in {"bind", "serving"} =>
       /\ RoutePattern \in DOMAIN srv.mux
       /\ srv.mux[RoutePattern] = FullChain

\* C12: a run makes one Driver.ListenAndServe call and one bind attempt at
\* most, Start returns what that call returned, and Shutdown is not retried.
C12_NoRetry ==
    /\ h.listenCalls <= 1
    /\ h.binds <= 1
    /\ Len(shutHist) <= 1
    /\ gpc \in {"send", "done"} => (h.listenCalls = 1 /\ goErr = h.drvRet)

\* A finished run whose only bind attempt failed.
C12_Witness ==
    pc = "done" /\ branch = "err" /\ goErr = EADDRINUSE /\ h.binds = 1 /\ gpc = "done"

\* The Go type of an error value: the errors of net/http are *net.OpError,
\* anything else would be the repository's wrapping Error type.
ErrType(e) ==
    CASE e = Nil -> "nil"
      [] e \in {EADDRINUSE, EACCEPT} -> "*net.OpError"
      [] OTHER -> "*error.Error"

\* C13: what Driver.ListenAndServe returns after a bind failure or a fatal
\* accept error is a TransportError (the Error type) wrapping the cause.
C13_TransportErrorWrapped ==
    gpc \in {"send", "done"} => ErrType(h.drvRet) = "*error.Error"

\* The lifecycle state of the spec, read off the Server: a shutdown request is
\* being handled, the accept loop runs, the listen call has not bound yet, no
\* listen call was made, or the listen call has ended.
Lifecycle ==
    IF pc = "shutdown" THEN "ShuttingDown"
    ELSE IF gpc = "serving" THEN "Serving"
    ELSE IF gpc \in {"spawned", "bind"} THEN "Starting"
    ELSE IF gpc = "none" THEN "Idle"
    ELSE "Stopped"

\* C14: Starting is entered only from Idle, Serving only from Starting with
\* the socket bound, ShuttingDown only from Serving, Idle never, and Stopped
\* is never left.
C14_LifecycleStep ==
    /\ (Lifecycle' = "Idle") => (Lifecycle = "Idle")
    /\ (Lifecycle' = "Starting" /\ Lifecycle # "Starting") => (Lifecycle = "Idle")
    /\ (Lifecycle' = "Serving" /\ Lifecycle # "Serving") =>
          (Lifecycle = "Starting" /\ port' = "ours")
    /\ (Lifecycle' = "ShuttingDown" /\ Lifecycle # "ShuttingDown") =>
          (Lifecycle = "Serving")
    /\ (Lifecycle = "Stopped") => (Lifecycle' = "Stopped")

C14_LifecycleChain == [][C14_LifecycleStep]_vars

\* C15: a run that took a signal while serving with no request in flight has,
\* when the orchestrator returns, a stopped server, a success result and no
\* shutdown error in the log.
C15_StoppedOnReturn ==
    (/\ pc = "done" /\ branch = "sig" /\ Len(shutHist) = 1
     /\ shutHist[1].phase = "serving" /\ shutHist[1].inflight = 0)
    => (Lifecycle = "Stopped" /\ result = Nil /\ ~Logged(LogShutErr))

\* C16: at most one Driver.ListenAndServe call is in progress at any time.
C16_OneActiveListen == h.active <= 1 /\ h.listenCalls <= 1

\* The listen call is in progress, serving a request.
C16_Witness == gpc = "serving" /\ h.active = 1 /\ inflight > 0 /\ pc = "select"

\* The stages a request has entered, in order.
EnteredStages(r) ==
    LET es == SelectSeq(r.trace, LAMBDA e : e[1] = "enter")
    IN [i \in 1..Len(es) |-> es[i][2]]

TerminalEntered(r) == \E k \in DOMAIN r.trace : r.trace[k] = <<"enter", StTerminal>>

\* C17: every registered route's handler is the four stages in the fixed
\* order around the terminal handler, wrapped once, and a request that has
\* reached the terminal handler has passed each stage once, in that order.
C17_ChainOrder ==
    /\ \A p \in DOMAIN srv.mux : srv.mux[p] = FullChain
    /\ TerminalEntered(req) => EnteredStages(req) = FullChain
    /\ \A i, j \in DOMAIN EnteredStages(req) :
          i # j => EnteredStages(req)[i] # EnteredStages(req)[j]

\* A request has been served through the registered route.
C17_Witness ==
    req.dir = "done" /\ req.status = 200 /\ EnteredStages(req) = FullChain

\* C18: a request that has reached the terminal handler has a logger in its
\* context and its remote address under the fixed key, and so does every
\* entry the access recorder writes.
C18_LoggerAndRemote ==
    /\ TerminalEntered(req) =>
          /\ LoggerAt(req, Len(req.handler))
          /\ RemoteKey \in DOMAIN req.fields
          /\ req.fields[RemoteKey] = req.remote
    /\ \A i \in DOMAIN accessLog :
          /\ RemoteKey \in DOMAIN accessLog[i].rec
          /\ accessLog[i].rec[RemoteKey] = accessLog[i].remote

\* The terminal handler is running for a request whose predecessor was logged.
C18_Witness ==
    /\ Len(accessLog) = 1
    /\ req.id = 2 /\ req.dir = "up" /\ req.pos = Len(req.handler) - 1
    /\ TerminalEntered(req)

\* C19: the access recorder writes exactly one entry for each request served
\* through the chain, and writes it after the terminal handler has returned.
C19_OneEntryAfterTerminal ==
    /\ \A i, j \in DOMAIN accessLog : i # j => accessLog[i].id # accessLog[j].id
    /\ \A i \in DOMAIN accessLog : accessLog[i].afterTerminal
    /\ h.chainServed \subseteq {accessLog[i].id : i \in DOMAIN accessLog}
    /\ {accessLog[i].id : i \in DOMAIN accessLog} \subseteq
          h.chainServed \cup (IF TerminalEntered(req) THEN {req.id} ELSE {})

\* Two requests were served through the chain, each with its entry.
C19_Witness == req.dir = "done" /\ h.chainServed = {1, 2} /\ Len(accessLog) = 2

\* C20: an access-log entry has the fields method, status, size and
\* duration, and for GET /api it carries the method GET and the path.
C20_AccessEntryFields ==
    \A i \in DOMAIN accessLog :
       /\ {"method", "status", "size", "duration"} \subseteq DOMAIN accessLog[i].rec
       /\ accessLog[i].rec["method"] = accessLog[i].method
       /\ \E k \in DOMAIN accessLog[i].rec : accessLog[i].rec[k] = accessLog[i].path

\* The places of a stage among the stages a request has entered.
EnteredAt(r, st) == {k \in DOMAIN EnteredStages(r) : EnteredStages(r)[k] = st}

Returned(r, st) == \E k \in DOMAIN r.trace : r.trace[k] = <<"return", st>>

\* C21: a request that has reached the authentication gate is handed to the
\* terminal handler next, once, with the context it reached the gate with, and
\* the gate writes no response of its own.
C21_AuthPassThrough ==
    \A k \in EnteredAt(req, StAuth) :
       /\ Cardinality(EnteredAt(req, StAuth)) = 1
       /\ (k < Len(EnteredStages(req)) \/ Returned(req, StAuth)) =>
             /\ EnteredAt(req, StTerminal) = {k + 1}
             /\ req.ctxs[k + 1] = req.ctxs[k]
       /\ req.dir # "done" => req.status = 0

\* The gate has returned after the terminal handler ran with the remote
\* address in its context.
C21_Witness ==
    /\ Returned(req, StAuth)
    /\ EnteredAt(req, StTerminal) # {}
    /\ \E k \in EnteredAt(req, StTerminal) : RemoteKey \in DOMAIN req.ctxs[k].fields

\* C22: a request whose handler has returned without the terminal handler
\* having run carries a status a stage wrote, and a request served through the
\* chain reaches the terminal handler and ends with 200.
C22_NoSilentShortCircuit ==
    /\ (req.id # 0 /\ req.dir = "up" /\ ~TerminalEntered(req)) => req.status # 0
    /\ (req.dir = "done" /\ req.id # 0 /\ req.handler[1] = StLogger) =>
          (TerminalEntered(req) /\ req.status = 200)
    /\ (req.dir = "done" /\ req.id # 0 /\ req.handler[1] # StLogger) =>
          req.status \in {404, 405}

\* The second request, a GET /api, was answered 200 after its terminal
\* handler ran.
C22_Witness ==
    /\ req.id = 2 /\ req.dir = "done" /\ req.status = 200
    /\ req.method = RouteMethod /\ req.path = RoutePath
    /\ TerminalEntered(req)

\* C23: a registration of a pattern the multiplexer already holds returns a
\* RouteConflictError as an error value, does not panic, and leaves the routes
\* as they were.
C23_RouteConflictError ==
    \A i \in DOMAIN h.regHist :
       h.regHist[i].conflict =>
          /\ h.regHist[i].ret = "RouteConflictError"
          /\ h.regHist[i].panic = Nil
          /\ h.regHist[i].same

\* C24: a step that writes the multiplexer, the driver's address or handler,
\* or the Server's bind address is taken only while no ListenAndServe call on
\* the Server is in progress.
C24_WriteStep == (srv' # srv) => (h.active = 0)

C24_NoWriteWhileListening == [][C24_WriteStep]_vars

\* The orchestrator has run to its return while the listen call, made with
\* the address and multiplexer set before it, is still serving.
C24_Witness ==
    /\ gpc = "serving" /\ h.active = 1 /\ pc = "return"
    /\ srv.Addr = ListenAddr /\ srv.DrvAddr = ListenAddr /\ srv.DrvHandler = "mux"

\* C25: a signal delivered after the select has taken its case leaves the
\* Shutdown calls, the log, the branch, the result and the orchestrator's
\* position as they are.
C25_LateSignalStep ==
    (branch # "none" /\ sigsSent' # sigsSent) =>
       /\ shutHist' = shutHist
       /\ log' = log
       /\ branch' = branch /\ err' = err /\ shutErr' = shutErr
       /\ result' = result
       /\ pc' = pc

C26_SendNeverBlocks ==
    /\ gpc = "send" => Len(errCh) < ChanCap
    /\ Len(errCh) <= ChanCap
    /\ gpc = "done" =>
          \/ errCh = <<goErr>>
          \/ errCh = <<>> /\ branch = "err" /\ err = goErr

\* The goroutine has sent and finished although the orchestrator took the
\* signal branch and never reads the channel.
C26_Witness ==
    /\ branch = "sig" /\ first = "sig" /\ pc = "return"
    /\ gpc = "done" /\ errCh = <<EACCEPT>>

\* C27: when RunServer has returned on the signal branch the accept loop has
\* ended and its result has been sent on the error channel.
C27_LoopEndedOnReturn ==
    (pc = "done" /\ branch = "sig") => (gpc = "done" /\ errCh = <<goErr>>)

\* The editors of a call, in the order the claim gives: the client's, then
\* the call's own.
AllEditors == cli.out.client.RequestEditors \o cli.call.eds

FailingAt(eds) == {k \in DOMAIN eds : EditorErr(eds[k]) # Nil}

FirstOf(ks) == CHOOSE k \in ks : \A j \in ks : k <= j

\* C28: in a call whose request was built, the editors that ran are the
\* client's followed by the call's, in order, up to and including the first
\* that fails; when one fails its error is returned with a nil response and
\* the Doer is not called; when none fails the Doer is called once.
C28_EditorsInOrder ==
    (cli.phase = "called" /\ URLParseErr(cli.out.client.Server) = Nil) =>
       IF FailingAt(AllEditors) # {}
         THEN LET k == FirstOf(FailingAt(AllEditors)) IN
              /\ cli.call.edits = SubSeq(AllEditors, 1, k)
              /\ cli.call.err = EditorErr(AllEditors[k])
              /\ cli.call.resp = "nil"
              /\ cli.call.doCalls = 0
         ELSE /\ cli.call.edits = AllEditors
              /\ cli.call.doCalls = 1

\* A call in which a client editor failed with per-call editors still to run.
C28_Witness ==
    /\ cli.phase = "called" /\ cli.call.op = "Login"
    /\ cli.out.client.RequestEditors = <<"edOk", "edFailA">>
    /\ cli.call.eds = <<"edFailB", "edOk">>
    /\ cli.call.err = "errA" /\ cli.call.doCalls = 0

Made == cli.phase = "made"

FailedOpts == {k \in DOMAIN cli.opts : ApplyOption(cli.opts[k], ZeroClient).err # Nil}

OptsOf(kind) == {k \in DOMAIN cli.opts : cli.opts[k].kind = kind}

LastOf(ks) == CHOOSE k \in ks : \A j \in ks : j <= k

\* The text Server is made from: the server text given, or with WithBaseURL
\* options the last one's URL as url.Parse and String render it.
BaseText ==
    IF OptsOf("WithBaseURL") = {} THEN cli.server
    ELSE URLString(cli.opts[LastOf(OptsOf("WithBaseURL"))].url)

====
